---------------------------- MODULE Spec2Model ----------------------------
(***************************************************************************)
(* c2clat: inter-core one-way data latency (src/c2clat.cpp).               *)
(*                                                                         *)
(* The model follows main(): option parsing, the affinity query, the       *)
(* enumeration of the usable CPUs, the pair loop with its responder        *)
(* thread and the two atomic cells seq1/seq2, the latency map `data`, and  *)
(* the rendering of the table.  Positions in `cpus` are 0-based as in the  *)
(* source (size_t i, j); At(s, k) reads element k of a sequence.           *)
(***************************************************************************)
EXTENDS Integers, Sequences, FiniteSets, TLC

(***************************************************************************)
(* Bounds of the model.                                                    *)
(***************************************************************************)
\* CPU_SETSIZE of <sched.h> (1024 with glibc), scaled down.
CPU_SETSIZE == 8
\* Largest core id of the affinity masks drawn when the pair loop is run.
MaxProbeCore == 2
\* Largest value given to -s (runs without -s take DefaultSamples samples).
MaxSamples == 2
\* Largest value given to -b / -e when the pair loop is run.
MaxBeginArg == 1
MaxEndArg == 2
\* The steady clock advances by 0 or TickNs nanoseconds between two readings,
\* at most MaxTicks times in one run.
TickNs == 250
MaxTicks == 2
\* Bits of the duration's rep besides the sign (63 in the source), scaled down.
RepBits == 20

(***************************************************************************)
(* Program constants.                                                      *)
(***************************************************************************)
DefaultSamples == 1000
NSteps == 100
Sentinel == -1

\* std::chrono::nanoseconds::max()
NsMax == 2^RepBits - 1

VARIABLES
    mainpc,       \* position of the controlling thread in main()
    proc,         \* "running", "exited" (exit or return) or "aborted"
    exitCode,     \* the exit status once the process has exited
    nsamples, begin_core, end_core, plot,
    set,          \* cpu_set_t filled by sched_getaffinity
    cpus,         \* std::vector<int> cpus
    ei,           \* loop variable of the enumeration loop
    data,         \* std::map<std::pair<int,int>, nanoseconds>
    i, j,         \* loop variables of the pair loop
    pair,         \* number of the current iteration of the pair loop body
    seq1, seq2,   \* the atomic cells in scope, by iteration number
    threads,      \* the responder threads created so far, by iteration number
    rtt, ts1, m, n,
    mainCpu,      \* core the controlling thread is pinned to (-1: initial mask)
    clock,        \* std::chrono::steady_clock
    out, err,     \* lines written to std::cout / stderr
    tag1,         \* history: repetition in which the value of seq1 was stored
    cw, rw,       \* history: sequence numbers stored so far, by iteration number
    samples,      \* history: <<ts1, ts2>> of the repetitions of the current pair
    measured,     \* history: the pairs <<i, j>> recorded so far, in order
    lat,          \* history: by set of the two cores the threads of a joined
                  \* pair were pinned to, the least ts2 - ts1 of its repetitions
    pins          \* history: successful pinThread calls, by iteration number

vars == <<mainpc, proc, exitCode, nsamples, begin_core, end_core, plot, set, cpus, ei,
          data, i, j, pair, seq1, seq2, threads, rtt, ts1, m, n, mainCpu, clock,
          out, err, tag1, cw, rw, samples, measured, lat, pins>>

exitVars == <<proc, exitCode>>
optVars == <<nsamples, begin_core, end_core, plot>>
enumVars == <<set, cpus, ei>>
loopVars == <<i, j, pair>>
cellVars == <<seq1, seq2, tag1>>
ctlVars == <<rtt, ts1, m, n>>
histVars == <<cw, rw, samples, measured, lat, pins>>

(***************************************************************************)
(* Helpers.                                                                *)
(***************************************************************************)
At(s, k) == s[k + 1]

Max(a, b) == IF a >= b THEN a ELSE b
Min(a, b) == IF a <= b THEN a ELSE b

\* C++ integer division (truncation toward zero), b > 0
TruncDiv(a, b) == IF a >= 0 THEN a \div b ELSE -((-a) \div b)

\* least element of a non-empty set of integers
MinOf(S) == CHOOSE x \in S : \A y \in S : x <= y

\* m[key] = v of std::map
MapPut(f, key, v) == (key :> v) @@ f

\* CPU_ISSET: false for an index outside the set's CPU_SETSIZE bits
CPU_ISSET(c, s) == c >= 0 /\ c < CPU_SETSIZE /\ c \in s

\* exit with the status of a normal end whatever the argument
Exit_success(code) == proc' = "exited" /\ exitCode' = 0

\* exit(code), or return from main()
Exit(code) == proc' = "exited" /\ exitCode' = code

\* std::terminate after an uncaught exception
Abort == proc' = "aborted" /\ UNCHANGED exitCode

(***************************************************************************)
(* State after the declarations of main(), lines 37-40.                    *)
(***************************************************************************)
Init ==
    /\ mainpc = "getopt"
    /\ proc = "running"
    /\ exitCode = 0
    /\ nsamples = DefaultSamples
    /\ begin_core = 0
    /\ end_core = CPU_SETSIZE
    /\ plot = FALSE
    /\ set = {}
    /\ cpus = <<>>
    /\ ei = 0
    /\ data = <<>>
    /\ i = 0
    /\ j = 0
    /\ pair = 0
    /\ seq1 = <<>>
    /\ seq2 = <<>>
    /\ tag1 = <<>>
    /\ threads = <<>>
    /\ rtt = NsMax
    /\ ts1 = 0
    /\ m = 0
    /\ n = 0
    /\ mainCpu = -1
    /\ clock = 0
    /\ out = <<>>
    /\ err = <<>>
    /\ cw = <<>>
    /\ rw = <<>>
    /\ samples = <<>>
    /\ measured = <<>>
    /\ lat = <<>>
    /\ pins = <<>>

(***************************************************************************)
(* Option parsing, lines 43-69.  SA, BA, EA are the values given to -s,    *)
(* -b and -e; -e may be absent (the default CPU_SETSIZE stays).            *)
(***************************************************************************)
BeginCore(b) == Max(b, 0)
EndCore(e) == Min(e, CPU_SETSIZE)

ParseArgs(SA, BA, EA) ==
    /\ mainpc = "getopt"
    /\ proc = "running"
    /\ \/ \* unrecognized option or stray positional argument
          /\ err' = Append(err, "usage")
          /\ Exit(1)
          /\ UNCHANGED <<mainpc, optVars>>
       \/ \* std::stoi throws on an argument that is no number
          /\ Abort
          /\ UNCHANGED <<mainpc, optVars, err>>
       \/ \E p \in BOOLEAN, s \in SA, b \in BA, e \in EA \cup {CPU_SETSIZE} :
             /\ plot' = p
             /\ nsamples' = s
             /\ begin_core' = BeginCore(b)
             /\ end_core' = EndCore(e)
             /\ mainpc' = "affinity"
             /\ UNCHANGED <<exitVars, err>>
    /\ UNCHANGED <<enumVars, data, loopVars, cellVars, threads, ctlVars, mainCpu,
                   clock, out, histVars>>

(***************************************************************************)
(* sched_getaffinity, lines 71-76, and the head of the loop of line 80.    *)
(***************************************************************************)
GetAffinity(Masks) ==
    /\ mainpc = "affinity"
    /\ proc = "running"
    /\ \/ /\ err' = Append(err, "perror sched_getaffinity")
          /\ Exit(1)
          /\ UNCHANGED <<mainpc, set, ei>>
       \/ \E mask \in Masks :
             /\ set' = mask
             /\ ei' = begin_core
             /\ mainpc' = "enum"
             /\ UNCHANGED <<exitVars, err>>
    /\ UNCHANGED <<optVars, cpus, data, loopVars, cellVars, threads, ctlVars,
                   mainCpu, clock, out, histVars>>

(***************************************************************************)
(* One iteration of the enumeration loop, lines 80-84; on leaving it,      *)
(* line 86 and the initialisation of the loop of line 88.                  *)
(***************************************************************************)
\* line 80 with the end of the range excluded
EnumContinues_excl(k, e) == k < e

\* line 80: the test i <= end_core
EnumContinues(k, e) == k <= e

EnumStep ==
    /\ mainpc = "enum"
    /\ proc = "running"
    /\ IF EnumContinues(ei, end_core)
       THEN /\ cpus' = IF CPU_ISSET(ei, set) THEN Append(cpus, ei) ELSE cpus
            /\ ei' = ei + 1
            /\ UNCHANGED <<mainpc, i>>
       ELSE /\ mainpc' = "for_i"
            /\ i' = 0
            /\ UNCHANGED <<cpus, ei>>
    /\ UNCHANGED <<exitVars, optVars, set, data, j, pair, cellVars, threads,
                   ctlVars, mainCpu, clock, out, err, histVars>>

(***************************************************************************)
(* The enumerator alone, over every mask and a wide range of -b and -e.    *)
(***************************************************************************)
AllMasks == SUBSET (0 .. CPU_SETSIZE - 1)
WideArgs == -1 .. CPU_SETSIZE + 2

ParseWide == ParseArgs({0}, WideArgs, WideArgs)
GetAffinityWide == GetAffinity(AllMasks)

NextEnum == ParseWide \/ GetAffinityWide \/ EnumStep

SpecEnum == Init /\ [][NextEnum]_vars

(***************************************************************************)
(* The pair loop, lines 88-125: the controlling thread.                    *)
(***************************************************************************)
\* line 89 with the inner loop started at 0
FirstJ_zero(a) == 0

\* line 89 with the inner loop started at i
FirstJ_same(a) == a

\* line 89: size_t j = i + 1
FirstJ(a) == a + 1

\* lines 122-123 with the key built from the core ids cpus[i], cpus[j]
PairKey_ids(a, b) == <<At(cpus, a), At(cpus, b)>>

\* lines 122-123: the key {i, j} of an entry, built from the loop variables
PairKey(a, b) == <<a, b>>

\* line 123 with the key of line 122 repeated
MirrorKey_same(a, b) == PairKey(a, b)

\* line 123: the key {j, i} of the mirrored entry
MirrorKey(a, b) == PairKey(b, a)

\* line 107 with the controller pinned to the responder's core
CtlCore_same(a, b) == At(cpus, a)

\* line 107: the core of the controlling thread in iteration (i, j), cpus[j]
CtlCore(a, b) == At(cpus, b)

\* line 95: the core of the responder in iteration (i, j), cpus[i]
RespCore(a, b) == At(cpus, a)

\* line 117 with the operands swapped
Elapsed_swapped(t1, t2) == t1 - t2

\* line 117: ts2 - ts1
Elapsed(t1, t2) == t2 - t1

\* line 117 with the result of std::min not assigned: rtt keeps its value
RttUpdate_keep(r, d) == r

\* line 117 with the minimum dropped: rtt = ts2 - ts1
RttUpdate_last(r, d) == d

\* line 117: std::min(rtt, ts2 - ts1)
RttUpdate(r, d) == Min(r, d)

\* lines 122-123: rtt / 2 / 100
OneWay(r) == TruncDiv(TruncDiv(r, 2), 100)

\* line 113 with the answer to the previous step accepted as well
CtlSeen_prev(v, k) == v >= k - 1

\* line 113 with the controller waiting for n + 1
CtlSeen_next(v, k) == v = k + 1

\* line 113: the controller leaves its spin loop when seq2 holds n
CtlSeen(v, k) == v = k

\* line 98 with the test weakened to "while (seq1 < n)"
RespSeen_atLeast(v, k) == v >= k

\* line 98: the responder leaves its spin loop when seq1 holds n
RespSeen(v, k) == v = k

\* line 120 with the thread detached instead of joined
JoinReady_detached(k) == TRUE

\* line 120: join() returns once the thread's function has returned
JoinReady(k) == threads[k].pc = "finished"

\* steady_clock::now(): the readings the clock may give next
ClockNext == {clock} \cup {t \in {clock + TickNs} : t <= MaxTicks * TickNs}

\* line 88: the test i < cpus.size(), and the initialisation of line 89
ForI ==
    /\ mainpc = "for_i"
    /\ proc = "running"
    /\ IF i < Len(cpus)
       THEN /\ j' = FirstJ(i)
            /\ mainpc' = "for_j"
       ELSE /\ mainpc' = "plot_pre"
            /\ UNCHANGED j
    /\ UNCHANGED <<exitVars, optVars, enumVars, data, i, pair, cellVars, threads,
                   ctlVars, mainCpu, clock, out, err, histVars>>

\* line 89: the test j < cpus.size(); lines 91-92 when it holds, ++i of line 88
\* when it does not
ForJ ==
    /\ mainpc = "for_j"
    /\ proc = "running"
    /\ IF j < Len(cpus)
       THEN /\ pair' = pair + 1
            /\ seq1' = MapPut(seq1, pair + 1, Sentinel)
            /\ seq2' = MapPut(seq2, pair + 1, Sentinel)
            /\ tag1' = MapPut(tag1, pair + 1, -1)
            /\ mainpc' = "spawn"
            /\ UNCHANGED i
       ELSE /\ i' = i + 1
            /\ mainpc' = "for_i"
            /\ UNCHANGED <<pair, cellVars>>
    /\ UNCHANGED <<exitVars, optVars, enumVars, data, j, threads, ctlVars,
                   mainCpu, clock, out, err, histVars>>

\* line 94: std::thread is constructed (it throws when no thread can be
\* created, and the uncaught exception aborts the process)
Spawn ==
    /\ mainpc = "spawn"
    /\ proc = "running"
    /\ \/ /\ Abort
          /\ UNCHANGED <<mainpc, threads, cw, rw, pins>>
       \/ /\ threads' = MapPut(threads, pair,
                 [pc |-> "pin", m |-> 0, n |-> 0, cpu |-> mainCpu, rd |-> -1])
          /\ cw' = MapPut(cw, pair, 0)
          /\ rw' = MapPut(rw, pair, 0)
          /\ pins' = MapPut(pins, pair, [ctl |-> 0, resp |-> 0])
          /\ mainpc' = "pin"
          /\ UNCHANGED exitVars
    /\ UNCHANGED <<optVars, enumVars, data, loopVars, cellVars, ctlVars, mainCpu,
                   clock, out, err, samples, measured, lat>>

\* lines 105-107: rtt starts at the maximum, the controller pins itself to
\* cpus[j]; line 108: int m = 0
MainPin ==
    /\ mainpc = "pin"
    /\ proc = "running"
    /\ rtt' = NsMax
    /\ samples' = <<>>
    /\ \/ /\ err' = Append(err, "perror sched_setaffinity")
          /\ Exit(1)
          /\ UNCHANGED <<mainpc, mainCpu, m, pins>>
       \/ /\ mainCpu' = CtlCore(i, j)
          /\ pins' = [pins EXCEPT ![pair].ctl = @ + 1]
          /\ m' = 0
          /\ mainpc' = "for_m"
          /\ UNCHANGED <<exitVars, err>>
    /\ UNCHANGED <<optVars, enumVars, data, loopVars, cellVars, threads, ts1, n,
                   clock, out, cw, rw, measured, lat>>

\* line 108: the test m < nsamples; line 109, first store: seq2 = -1
ForM ==
    /\ mainpc = "for_m"
    /\ proc = "running"
    /\ IF m < nsamples
       THEN /\ seq2' = [seq2 EXCEPT ![pair] = Sentinel]
            /\ mainpc' = "reset"
       ELSE /\ mainpc' = "join"
            /\ UNCHANGED seq2
    /\ UNCHANGED <<exitVars, optVars, enumVars, data, loopVars, seq1, tag1,
                   threads, ctlVars, mainCpu, clock, out, err, histVars>>

\* line 109, second store: seq1 = (the value just stored to seq2)
Reset ==
    /\ mainpc = "reset"
    /\ proc = "running"
    /\ seq1' = [seq1 EXCEPT ![pair] = Sentinel]
    /\ tag1' = [tag1 EXCEPT ![pair] = -1]
    /\ mainpc' = "ts1"
    /\ UNCHANGED <<exitVars, optVars, enumVars, data, loopVars, seq2, threads,
                   ctlVars, mainCpu, clock, out, err, histVars>>

\* line 110: ts1 = now(); line 111: int n = 0
Ts1 ==
    /\ mainpc = "ts1"
    /\ proc = "running"
    /\ \E t \in ClockNext :
          /\ clock' = t
          /\ ts1' = t
    /\ n' = 0
    /\ mainpc' = "store"
    /\ UNCHANGED <<exitVars, optVars, enumVars, data, loopVars, cellVars, threads,
                   rtt, m, mainCpu, out, err, histVars>>

\* line 112: seq1.store(n, release)
CStore ==
    /\ mainpc = "store"
    /\ proc = "running"
    /\ seq1' = [seq1 EXCEPT ![pair] = n]
    /\ tag1' = [tag1 EXCEPT ![pair] = m]
    /\ cw' = [cw EXCEPT ![pair] = @ + 1]
    /\ mainpc' = "spin"
    /\ UNCHANGED <<exitVars, optVars, enumVars, data, loopVars, seq2, threads,
                   ctlVars, mainCpu, clock, out, err, rw, samples, measured, lat,
                   pins>>

\* lines 113-114: a load of seq2 that ends the spin loop; line 111: ++n and
\* the test n < 100 (a load of another value leaves the state as it is)
CSpin ==
    /\ mainpc = "spin"
    /\ proc = "running"
    /\ CtlSeen(seq2[pair], n)
    /\ n' = n + 1
    /\ mainpc' = IF n + 1 < NSteps THEN "store" ELSE "ts2"
    /\ UNCHANGED <<exitVars, optVars, enumVars, data, loopVars, cellVars, threads,
                   rtt, ts1, m, mainCpu, clock, out, err, histVars>>

\* lines 116-117: ts2 = now(), rtt = min(rtt, ts2 - ts1); line 108: ++m
Ts2 ==
    /\ mainpc = "ts2"
    /\ proc = "running"
    /\ \E t \in ClockNext :
          /\ clock' = t
          /\ rtt' = RttUpdate(rtt, Elapsed(ts1, t))
          /\ samples' = Append(samples, <<ts1, t>>)
    /\ m' = m + 1
    /\ mainpc' = "for_m"
    /\ UNCHANGED <<exitVars, optVars, enumVars, data, loopVars, cellVars, threads,
                   ts1, n, mainCpu, out, err, cw, rw, measured, lat, pins>>

\* line 120: t.join()
Join ==
    /\ mainpc = "join"
    /\ proc = "running"
    /\ JoinReady(pair)
    /\ lat' = MapPut(lat, {threads[pair].cpu, mainCpu},
                     IF samples = <<>> THEN NsMax
                     ELSE MinOf({samples[k][2] - samples[k][1] : k \in DOMAIN samples}))
    /\ mainpc' = "rec1"
    /\ UNCHANGED <<exitVars, optVars, enumVars, data, loopVars, cellVars, threads,
                   ctlVars, mainCpu, clock, out, err, cw, rw, samples, measured,
                   pins>>

\* line 122: data[{i, j}] = rtt / 2 / 100
Rec1 ==
    /\ mainpc = "rec1"
    /\ proc = "running"
    /\ data' = MapPut(data, PairKey(i, j), OneWay(rtt))
    /\ measured' = Append(measured, <<i, j>>)
    /\ mainpc' = "rec2"
    /\ UNCHANGED <<exitVars, optVars, enumVars, loopVars, cellVars, threads,
                   ctlVars, mainCpu, clock, out, err, cw, rw, samples, lat, pins>>

\* line 123: data[{j, i}] = rtt / 2 / 100
Rec2 ==
    /\ mainpc = "rec2"
    /\ proc = "running"
    /\ data' = MapPut(data, MirrorKey(i, j), OneWay(rtt))
    /\ mainpc' = "end_pair"
    /\ UNCHANGED <<exitVars, optVars, enumVars, loopVars, cellVars, threads,
                   ctlVars, mainCpu, clock, out, err, histVars>>

\* line 124: the body's scope ends, seq1 and seq2 are destroyed; line 89: ++j
EndPair ==
    /\ mainpc = "end_pair"
    /\ proc = "running"
    /\ seq1' = [k \in DOMAIN seq1 \ {pair} |-> seq1[k]]
    /\ seq2' = [k \in DOMAIN seq2 \ {pair} |-> seq2[k]]
    /\ tag1' = [k \in DOMAIN tag1 \ {pair} |-> tag1[k]]
    /\ j' = j + 1
    /\ mainpc' = "for_j"
    /\ UNCHANGED <<exitVars, optVars, enumVars, data, i, pair, threads, ctlVars,
                   mainCpu, clock, out, err, histVars>>

(***************************************************************************)
(* The responder thread of iteration k, lines 94-103.  It reads i, cpus    *)
(* and nsamples of main() by reference.                                    *)
(*                                                                         *)
(* Every access to seq1 or seq2 is one step.  The loads are acquire, the   *)
(* numbered stores release and the resets of line 109 sequentially         *)
(* consistent; each store of a thread follows a load by which that thread  *)
(* has seen the other thread's latest store, so every execution is an      *)
(* interleaving of the steps below.                                        *)
(***************************************************************************)
\* line 95: pinThread(cpus[i]); lines 96-97: m = 0, n = 0 and the loop tests
RPin(k) ==
    /\ proc = "running"
    /\ threads[k].pc = "pin"
    /\ \/ /\ err' = Append(err, "perror sched_setaffinity")
          /\ Exit(1)
          /\ UNCHANGED <<threads, pins>>
       \/ /\ threads' = [threads EXCEPT ![k] =
                 [@ EXCEPT !.cpu = RespCore(i, j), !.m = 0, !.n = 0,
                           !.pc = IF 0 < nsamples THEN "load" ELSE "finished"]]
          /\ pins' = [pins EXCEPT ![k].resp = @ + 1]
          /\ UNCHANGED <<exitVars, err>>
    /\ UNCHANGED <<mainpc, optVars, enumVars, data, loopVars, cellVars, ctlVars,
                   mainCpu, clock, out, cw, rw, samples, measured, lat>>

\* lines 98-99: a load of seq1 that ends the spin loop
RLoad(k) ==
    /\ proc = "running"
    /\ threads[k].pc = "load"
    /\ RespSeen(seq1[k], threads[k].n)
    /\ threads' = [threads EXCEPT ![k] = [@ EXCEPT !.pc = "store", !.rd = tag1[k]]]
    /\ UNCHANGED <<mainpc, exitVars, optVars, enumVars, data, loopVars, cellVars,
                   ctlVars, mainCpu, clock, out, err, histVars>>

\* line 100: seq2.store(n, release); lines 97 and 96: ++n, ++m and the tests
RStore(k) ==
    /\ proc = "running"
    /\ threads[k].pc = "store"
    /\ seq2' = [seq2 EXCEPT ![k] = threads[k].n]
    /\ rw' = [rw EXCEPT ![k] = @ + 1]
    /\ threads' = [threads EXCEPT ![k] =
          IF @.n + 1 < NSteps
          THEN [@ EXCEPT !.n = @ + 1, !.pc = "load"]
          ELSE [@ EXCEPT !.n = 0, !.m = @ + 1,
                         !.pc = IF threads[k].m + 1 < nsamples
                                THEN "load" ELSE "finished"]]
    /\ UNCHANGED <<mainpc, exitVars, optVars, enumVars, data, loopVars, seq1, tag1,
                   ctlVars, mainCpu, clock, out, err, cw, samples, measured, lat,
                   pins>>

Responder == \E k \in DOMAIN threads : RPin(k) \/ RLoad(k) \/ RStore(k)

(***************************************************************************)
(* Rendering, lines 127-155.  The loops of lines 137-147 declare their own *)
(* i and j; the model reuses i for the row loop.                           *)
(***************************************************************************)
Line(kind, text, id, vals) ==
    [kind |-> kind, text |-> text, id |-> id, vals |-> vals]

Text(s) == Line("text", s, -1, <<>>)

\* lines 128-133: the lines written before the table with -p
Preamble ==
    <<Text("set title \"Inter-core one-way data latency between CPU cores\""),
      Text("set xlabel \"CPU\""),
      Text("set ylabel \"CPU\""),
      Text("set cblabel \"Latency (ns)\""),
      Text("$data << EOD")>>

\* lines 150-152 with the closing marker left out
Trailer_noMarker ==
    <<Text("plot '$data' matrix rowheaders columnheaders using 2:1:3 with image")>>

\* lines 150-152: the lines written after the table with -p
Trailer ==
    <<Text("EOD"),
      Text("plot '$data' matrix rowheaders columnheaders using 2:1:3 with image")>>

\* lines 137-139 with the positions printed in place of the core ids
HeaderIds_positions == [k \in 1 .. Len(cpus) |-> k - 1]

\* lines 137-139: the columns of the header line, cpus[i] for every i
HeaderIds == cpus

\* line 144 with the entry assigned a default value instead of read
Touch_assign(f, keys) ==
    [k \in DOMAIN f \cup keys |-> IF k \in keys THEN 0 ELSE f[k]]

\* lines 127-134
PlotPre ==
    /\ mainpc = "plot_pre"
    /\ proc = "running"
    /\ out' = IF plot THEN out \o Preamble ELSE out
    /\ mainpc' = "header"
    /\ UNCHANGED <<exitVars, optVars, enumVars, data, loopVars, cellVars, threads,
                   ctlVars, mainCpu, clock, err, histVars>>

\* lines 136-140, and size_t i = 0 of line 141
Header ==
    /\ mainpc = "header"
    /\ proc = "running"
    /\ out' = Append(out, Line("header", "CPU", -1, HeaderIds))
    /\ i' = 0
    /\ mainpc' = "row"
    /\ UNCHANGED <<exitVars, optVars, enumVars, data, j, pair, cellVars, threads,
                   ctlVars, mainCpu, clock, err, histVars>>

\* data[{i, j}] of line 144: operator[] inserts a zero duration for a key
\* the map does not hold
RowKeys(r) == {PairKey(r, c) : c \in 0 .. Len(cpus) - 1}

Touch(f, keys) == [k \in DOMAIN f \cup keys |-> IF k \in DOMAIN f THEN f[k] ELSE 0]

\* lines 141-147: one row of the table
Row ==
    /\ mainpc = "row"
    /\ proc = "running"
    /\ IF i < Len(cpus)
       THEN /\ data' = Touch(data, RowKeys(i))
            /\ out' = Append(out, Line("row", "", At(cpus, i),
                          [c \in 1 .. Len(cpus) |-> data'[PairKey(i, c - 1)]]))
            /\ i' = i + 1
            /\ UNCHANGED mainpc
       ELSE /\ mainpc' = "plot_post"
            /\ UNCHANGED <<data, out, i>>
    /\ UNCHANGED <<exitVars, optVars, enumVars, j, pair, cellVars, threads,
                   ctlVars, mainCpu, clock, err, histVars>>

\* lines 149-153
PlotPost ==
    /\ mainpc = "plot_post"
    /\ proc = "running"
    /\ out' = IF plot THEN out \o Trailer ELSE out
    /\ mainpc' = "return"
    /\ UNCHANGED <<exitVars, optVars, enumVars, data, loopVars, cellVars, threads,
                   ctlVars, mainCpu, clock, err, histVars>>

\* line 155: return 0
Return ==
    /\ mainpc = "return"
    /\ proc = "running"
    /\ Exit(0)
    /\ mainpc' = "done"
    /\ UNCHANGED <<optVars, enumVars, data, loopVars, cellVars, threads, ctlVars,
                   mainCpu, clock, out, err, histVars>>

(***************************************************************************)
(* The program, over the masks and arguments the pair loop is run with.    *)
(***************************************************************************)
ProbeMasks == SUBSET (0 .. MaxProbeCore)

Parse == ParseArgs(-1 .. MaxSamples, -1 .. MaxBeginArg, 0 .. MaxEndArg)
GetAffinityProbe == GetAffinity(ProbeMasks)

Controller ==
    \/ ForI \/ ForJ \/ Spawn \/ MainPin \/ ForM \/ Reset \/ Ts1 \/ CStore
    \/ CSpin \/ Ts2 \/ Join \/ Rec1 \/ Rec2 \/ EndPair

Render == PlotPre \/ Header \/ Row \/ PlotPost \/ Return

Next == Parse \/ GetAffinityProbe \/ EnumStep \/ Controller \/ Responder \/ Render

Spec == Init /\ [][Next]_vars

(***************************************************************************)
(* The program with both threads scheduled: a step of a thread that stays  *)
(* possible is eventually taken.  -b and -e are left at their defaults.    *)
(***************************************************************************)
ParseDefaultRange == ParseArgs(-1 .. MaxSamples, {0}, {})

MainThread ==
    ParseDefaultRange \/ GetAffinityProbe \/ EnumStep \/ Controller \/ Render

NextFair == MainThread \/ Responder

SpecFair == Init /\ [][NextFair]_vars /\ WF_vars(MainThread) /\ WF_vars(Responder)

(***************************************************************************)
(* Properties.                                                             *)
(***************************************************************************)
Range(s) == {s[k] : k \in DOMAIN s}

\* the responder threads that have not returned from their function
Alive == {k \in DOMAIN threads : threads[k].pc # "finished"}

\* positions of main() between the construction of the thread and join()
SamplingPcs == {"pin", "for_m", "reset", "ts1", "store", "spin", "ts2", "join"}

\* C1: strict alternation of the handshake.  In every pair the stores of
\* sequence numbers alternate, the controller first: the responder has never
\* stored more numbers than the controller and the controller is never more
\* than one ahead.  When the controller is about to store n in repetition m,
\* both have completed m * 100 + n steps, and both have completed the whole
\* repetition when it ends.  When the responder is about to
\* store n in its repetition m, it has read n from seq1, that value was stored
\* by the controller in the same repetition m (not left by an earlier one, nor
\* the reset value), and the controller is spinning for the answer to that
\* very step.
C1_Alternation ==
    /\ \A k \in DOMAIN threads :
          /\ rw[k] <= cw[k]
          /\ cw[k] <= rw[k] + 1
          /\ threads[k].pc = "store" =>
                /\ k = pair
                /\ mainpc = "spin"
                /\ seq1[k] = threads[k].n
                /\ threads[k].rd = threads[k].m
                /\ threads[k].m = m
                /\ threads[k].n = n
                /\ rw[k] = threads[k].m * NSteps + threads[k].n
                /\ cw[k] = rw[k] + 1
    /\ mainpc = "store" =>
          /\ cw[pair] = m * NSteps + n
          /\ rw[pair] = cw[pair]
    /\ mainpc = "ts2" =>
          /\ cw[pair] = (m + 1) * NSteps
          /\ rw[pair] = cw[pair]

\* C1 witness: the responder is about to answer step 0 of the second
\* repetition, after the controller's reset of both cells.
C1_Witness ==
    \E k \in DOMAIN threads :
       /\ threads[k].pc = "store"
       /\ threads[k].m = 1
       /\ threads[k].n = 0
       /\ rw[k] = NSteps

\* positions of main() after the pair loop
RenderPcs == {"plot_pre", "header", "row", "plot_post", "return", "done"}

\* the positions of the enumerated list, and its pairs a < b
Positions == 0 .. Len(cpus) - 1
AllPairs == {p \in Positions \X Positions : p[1] < p[2]}

LexLess(p, q) == p[1] < q[1] \/ (p[1] = q[1] /\ p[2] < q[2])

\* C2: termination of every pair when both threads are scheduled.  A pair
\* whose responder is being created is eventually joined, or the process has
\* ended by a failing pin call or thread creation; at the join the responder
\* has returned and controller and responder have each done exactly
\* nsamples * 100 steps (none for nsamples <= 0); and the program eventually
\* reaches the output phase with every pair measured, or has ended.
C2_Termination ==
    /\ [](mainpc = "rec1" =>
             /\ threads[pair].pc = "finished"
             /\ cw[pair] = NSteps * Max(nsamples, 0)
             /\ rw[pair] = NSteps * Max(nsamples, 0))
    /\ [](mainpc = "plot_pre" => Alive = {} /\ Range(measured) = AllPairs)
    /\ [](mainpc = "spawn" => <>(mainpc = "rec1" \/ proc # "running"))
    /\ <>(mainpc = "plot_pre" \/ proc # "running")

\* C2 witness: the output phase is reached after three pairs of two
\* repetitions each.
C2_Witness ==
    /\ mainpc = "plot_pre"
    /\ proc = "running"
    /\ nsamples = 2
    /\ Len(measured) = 3
    /\ \A k \in DOMAIN threads : rw[k] = 2 * NSteps /\ cw[k] = 2 * NSteps

\* C3 as stated: once probing is complete, for every two distinct enumerated
\* core ids a and b the entries (a, b) and (b, a) exist and are equal.
C3_Original ==
    mainpc \in RenderPcs =>
       \A a \in Range(cpus), b \in Range(cpus) :
          a # b => /\ <<a, b>> \in DOMAIN data
                   /\ <<b, a>> \in DOMAIN data
                   /\ data[<<a, b>>] = data[<<b, a>>]

\* C3 amended: once probing is complete, for every two distinct positions a
\* and b of the enumerated core list the entries (a, b) and (b, a) exist and
\* hold the same value (the map is keyed by positions, not by core ids).
C3_Symmetry ==
    mainpc \in RenderPcs =>
       \A a \in Positions, b \in Positions :
          a # b => /\ <<a, b>> \in DOMAIN data
                   /\ <<b, a>> \in DOMAIN data
                   /\ data[<<a, b>>] = data[<<b, a>>]

\* C3 witness: probing of three cores with two repetitions per pair is
\* complete and a non-zero latency was recorded.
C3_Witness ==
    /\ mainpc = "plot_pre"
    /\ Len(cpus) = 3
    /\ nsamples = 2
    /\ <<0, 1>> \in DOMAIN data
    /\ data[<<0, 1>>] > 0
    /\ data[<<1, 0>>] > 0

\* C4: pairs are measured strictly sequentially.  At most one responder is
\* alive, it belongs to the current iteration and lives only between its
\* construction and the join; between the two the responder of the current
\* iteration exists, and it is running whenever the controller is about to
\* store a sequence number; only the cells of the current iteration exist
\* and a live responder's cells exist; when the next pair's cells are created
\* and its responder constructed no responder is alive; and the map changes
\* only in steps taken while no responder is alive.
C4_Sequential ==
    /\ [](/\ Cardinality(Alive) <= 1
          /\ Alive \subseteq {pair}
          /\ Alive # {} => mainpc \in SamplingPcs
          /\ mainpc \in SamplingPcs => pair \in DOMAIN threads
          /\ mainpc = "store" => Alive = {pair}
          /\ \A k \in Alive : k \in DOMAIN seq1 /\ k \in DOMAIN seq2
          /\ DOMAIN seq1 \subseteq {pair}
          /\ DOMAIN seq2 \subseteq {pair}
          /\ mainpc \in {"for_i", "for_j"} => DOMAIN seq1 = {} /\ DOMAIN seq2 = {}
          /\ mainpc \in {"for_i", "for_j", "spawn"} => Alive = {})
    /\ [][data' # data => Alive = {} /\ Alive' = {} /\ threads' = threads]_vars

\* C4 witness: the responder of the second pair is alive and answering while
\* the first one has returned.
C4_Witness ==
    /\ pair = 2
    /\ Alive = {2}
    /\ threads[2].pc = "store"
    /\ threads[1].pc = "finished"

\* C5: the enumerator's output is strictly ascending; during the loop it
\* holds exactly the ids of the mask in [begin_core, ei), and after the loop
\* exactly the ids of the mask in [begin_core, end_core] (none when
\* begin_core > end_core).  With mask {2, 4, 7} and -e 10: -b 0 gives
\* [2, 4, 7] and -b 5 gives [7].
C5_Enumeration ==
    /\ \A a \in DOMAIN cpus, b \in DOMAIN cpus : a < b => cpus[a] < cpus[b]
    /\ mainpc = "enum" =>
          Range(cpus) = {c \in set : begin_core <= c /\ c < ei /\ c <= end_core}
    /\ mainpc = "for_i" =>
          Range(cpus) = {c \in set : begin_core <= c /\ c <= end_core}
    /\ (mainpc = "for_i" /\ set = {2, 4, 7} /\ end_core = EndCore(10)) =>
          /\ begin_core = 0 => cpus = <<2, 4, 7>>
          /\ begin_core = 5 => cpus = <<7>>

\* C5 witness: mask {2, 4, 7} enumerated from 5 to the end of the set.
C5_Witness ==
    /\ mainpc = "for_i"
    /\ set = {2, 4, 7}
    /\ begin_core = 5
    /\ end_core = EndCore(10)
    /\ cpus = <<7>>

\* C6: every pair of positions a < b of the enumerated list is measured
\* exactly once, in ascending lexical order: the pairs recorded so far are
\* pairs a < b in strictly ascending lexical order, they are exactly the
\* pairs up to the current one, and all pairs once the loop has ended.  The
\* map only grows: no step changes or removes an entry, and every step of the
\* pair loop that changes the map adds one new key.
C6_PairsOnce ==
    /\ [](/\ \A k \in DOMAIN measured : measured[k] \in AllPairs
          /\ \A a \in DOMAIN measured, b \in DOMAIN measured :
                a < b => LexLess(measured[a], measured[b])
          /\ mainpc \in {"rec2", "end_pair"} =>
                Range(measured) =
                   {p \in AllPairs : LexLess(p, <<i, j>>) \/ p = <<i, j>>}
          /\ mainpc \in RenderPcs => Range(measured) = AllPairs)
    /\ [][\A k \in DOMAIN data : k \in DOMAIN data' /\ data'[k] = data[k]]_vars
    /\ [][(data' # data /\ mainpc \notin RenderPcs) =>
             Cardinality(DOMAIN data') = Cardinality(DOMAIN data) + 1]_vars

\* C6 witness: the loop over three cores has ended.
C6_Witness ==
    /\ mainpc = "plot_pre"
    /\ measured = << <<0, 1>>, <<0, 2>>, <<1, 2>> >>
    /\ Cardinality(DOMAIN data) = 6

\* elapsed time of repetition k of the current pair
SampleNs(k) == samples[k][2] - samples[k][1]

MinSample ==
    CHOOSE x \in {SampleNs(k) : k \in DOMAIN samples} :
       \A k \in DOMAIN samples : x <= SampleNs(k)

\* C7: for nsamples >= 1 the value recorded for a pair is min / 2 / 100,
\* each division truncating, where min is the least of the nsamples elapsed
\* times ts2 - ts1 of the pair's repetitions; it is at most every
\* repetition's elapsed time divided by 200.
C7_MinHalved ==
    (mainpc = "end_pair" /\ nsamples >= 1) =>
       /\ Len(samples) = nsamples
       /\ data[<<i, j>>] = (MinSample \div 2) \div 100
       /\ data[<<j, i>>] = (MinSample \div 2) \div 100
       /\ \A k \in DOMAIN samples : data[<<i, j>>] <= SampleNs(k) \div 200

\* C7 witness: two repetitions with different elapsed times, the first one
\* the shorter.
C7_Witness ==
    /\ mainpc = "end_pair"
    /\ nsamples = 2
    /\ Len(samples) = 2
    /\ SampleNs(1) < SampleNs(2)
    /\ SampleNs(2) >= 200

\* C8: with the monotonic clock every entry of the map is a non-negative
\* duration, and so is rtt; with nsamples = 1 the recorded value is the one
\* sample's elapsed time / 2 / 100.
C8_NonNegative ==
    /\ rtt >= 0
    /\ \A k \in DOMAIN data : data[k] >= 0
    /\ (mainpc = "end_pair" /\ nsamples = 1) =>
          /\ Len(samples) = 1
          /\ samples[1][2] >= samples[1][1]
          /\ data[<<i, j>>] = ((samples[1][2] - samples[1][1]) \div 2) \div 100

\* C8 witness: a single sample during which the clock advanced.
C8_Witness ==
    /\ mainpc = "end_pair"
    /\ nsamples = 1
    /\ samples[1][2] > samples[1][1]
    /\ data[<<i, j>>] > 0

\* C9 as stated: the result measured between the cores with ids a = cpus[i]
\* and b = cpus[j] is stored under the keys (a, b) and (b, a).
C9_Original ==
    mainpc = "end_pair" =>
       /\ <<At(cpus, i), At(cpus, j)>> \in DOMAIN data
       /\ <<At(cpus, j), At(cpus, i)>> \in DOMAIN data
       /\ data[<<At(cpus, i), At(cpus, j)>>] = OneWay(rtt)
       /\ data[<<At(cpus, j), At(cpus, i)>>] = OneWay(rtt)

\* C9 amended: the map is keyed by pairs of positions in the enumerated
\* list.  The result measured between the cores cpus[i] (responder) and
\* cpus[j] (controller) is stored under (i, j) and (j, i); every key is a
\* pair of positions, and up to the end of the pair loop the keys are the
\* recorded pairs and their mirrors.
C9_KeyedByPosition ==
    /\ DOMAIN data \subseteq Positions \X Positions
    /\ mainpc \in {"end_pair", "for_j", "for_i", "plot_pre"} =>
          DOMAIN data = Range(measured) \cup {<<p[2], p[1]>> : p \in Range(measured)}
    /\ mainpc = "end_pair" =>
          /\ threads[pair].cpu = At(cpus, i)
          /\ mainCpu = At(cpus, j)
          /\ <<i, j>> \in DOMAIN data
          /\ <<j, i>> \in DOMAIN data
          /\ data[<<i, j>>] = OneWay(rtt)
          /\ data[<<j, i>>] = OneWay(rtt)

\* C9 witness: a pair is recorded whose core ids differ from their positions
\* in the list.
C9_Witness ==
    /\ mainpc = "end_pair"
    /\ At(cpus, i) # i
    /\ At(cpus, j) # j
    /\ <<i, j>> \in DOMAIN data

\* C10: up to the end of the pair loop (until the first row of the table is
\* rendered) the map holds no entry whose two key components are equal.
C10_NoDiagonal ==
    mainpc \notin {"row", "plot_post", "return", "done"} =>
       \A k \in DOMAIN data : k[1] # k[2]

\* C10 witness: the pair loop over three cores has ended with six entries.
C10_Witness ==
    /\ mainpc = "header"
    /\ Len(cpus) = 3
    /\ Cardinality(DOMAIN data) = 6

\* C11 as stated: in every reachable state, the rendering of the table
\* included, the map holds no entry (i, i), and no step of the rendering
\* changes the map.
C11_Original ==
    /\ [](\A k \in DOMAIN data : k[1] # k[2])
    /\ [][(mainpc \in RenderPcs) => (data' = data)]_vars

\* C11 amended: the pair loop never stores an entry (i, i), and rendering
\* leaves every entry stored by the pair loop unchanged; the only change
\* made by rendering is that the row of position i adds the entry (i, i)
\* with a zero duration.  While the rows are written the diagonal entries
\* are exactly those of the rows written so far; after the last row the
\* map is the set stored by the pair loop plus one zero entry (i, i) for
\* every position i.
C11_RenderingAddsDiagonal ==
    /\ [](/\ mainpc \notin {"row", "plot_post", "return", "done"} =>
                \A k \in DOMAIN data : k[1] # k[2]
          /\ mainpc = "row" =>
                {k \in DOMAIN data : k[1] = k[2]} = {<<r, r>> : r \in 0 .. i - 1}
          /\ mainpc \in {"plot_post", "return", "done"} =>
                /\ {k \in DOMAIN data : k[1] = k[2]} = {<<r, r>> : r \in Positions}
                /\ {k \in DOMAIN data : k[1] # k[2]} =
                      Range(measured) \cup {<<p[2], p[1]>> : p \in Range(measured)}
          /\ \A k \in DOMAIN data : k[1] = k[2] => data[k] = 0)
    /\ [][(mainpc \in RenderPcs) =>
             (/\ \A k \in DOMAIN data : k \in DOMAIN data' /\ data'[k] = data[k]
              /\ DOMAIN data' \ DOMAIN data \subseteq {<<i, i>>})]_vars

\* C11 witness: the table of three cores is written, non-zero latencies
\* were recorded and the map holds the three diagonal entries.
C11_Witness ==
    /\ mainpc = "done"
    /\ Len(cpus) = 3
    /\ Cardinality(DOMAIN data) = 9
    /\ data[<<0, 1>>] > 0
    /\ data[<<1, 1>>] = 0

\* C12: no partial output on failure.  A process that has ended with exit
\* status 1 (usage error, failing affinity query, failing pin call of the
\* controller or of a responder) has written nothing to stdout, and nothing
\* happens after the process has ended; any line on stdout was written after
\* the pair loop completed every pair; and a process that has ended with
\* status 0 has reached the end of main() with every pair measured, every
\* responder returned and every handshake of nsamples * 100 steps done.
C12_NoPartialOutput ==
    /\ []((proc = "exited" /\ exitCode = 1) => (out = <<>> /\ mainpc \notin RenderPcs))
    /\ [](out # <<>> => (mainpc \in RenderPcs /\ Range(measured) = AllPairs))
    /\ []((proc = "exited" /\ exitCode = 0) =>
             (/\ mainpc = "done"
              /\ Range(measured) = AllPairs
              /\ Alive = {}
              /\ \A k \in DOMAIN threads :
                    /\ cw[k] = NSteps * Max(nsamples, 0)
                    /\ rw[k] = NSteps * Max(nsamples, 0)))
    /\ [][proc = "running"]_vars

\* C12 witness: the pin call of the responder of the second pair failed
\* while the controller was waiting for its first answer; the process has
\* ended with status 1 after one measured pair.
C12_Witness ==
    /\ proc = "exited"
    /\ exitCode = 1
    /\ pair = 2
    /\ mainpc = "spin"
    /\ threads[2].pc = "pin"
    /\ Len(measured) = 1
    /\ out = <<>>

\* the output of a completed run in plot mode has the given number of
\* directive lines, then "$data << EOD", the header, one row per enumerated
\* core, "EOD", one plot command line, and nothing else
PlotShape(directives) ==
    LET nc == Len(cpus)
        d == directives
    IN  /\ Len(out) = d + 1 + 1 + nc + 1 + 1
        /\ \A k \in 1 .. d :
              /\ out[k].kind = "text"
              /\ out[k].text \notin {"$data << EOD", "EOD"}
        /\ out[d + 1] = Text("$data << EOD")
        /\ out[d + 2].kind = "header"
        /\ \A r \in 1 .. nc : out[d + 2 + r].kind = "row"
        /\ out[d + nc + 3] = Text("EOD")
        /\ out[d + nc + 4].kind = "text"
        /\ out[d + nc + 4].text \notin {"$data << EOD", "EOD"}

\* C13 as stated: in plot mode the output is exactly three directive lines,
\* "$data << EOD", the table, "EOD" and exactly one plot command line.
C13_Original ==
    (mainpc = "done" /\ plot) => PlotShape(3)

\* C13 amended: in plot mode the output is exactly four directive lines
\* (title, x label, y label, colour-box label), "$data << EOD", the table
\* (header and one row per enumerated core), "EOD" and exactly one plot
\* command line, and nothing else; without -p it is the table alone.
C13_PlotStructure ==
    /\ (mainpc = "done" /\ plot) => PlotShape(4)
    /\ (mainpc = "done" /\ ~plot) =>
          /\ Len(out) = 1 + Len(cpus)
          /\ out[1].kind = "header"
          /\ \A r \in 1 .. Len(cpus) : out[1 + r].kind = "row"

\* C13 witness: a completed run with -p over three cores.
C13_Witness ==
    /\ mainpc = "done"
    /\ plot
    /\ Len(cpus) = 3
    /\ Len(out) = 11

\* C14 as stated: with enumerated cores [0, 1] and nsamples = 2, when
\* probing completes the map holds exactly the entries (0, 1) and (1, 0),
\* they are equal, and both are strictly greater than 0.
C14_Original ==
    (mainpc = "plot_pre" /\ cpus = <<0, 1>> /\ nsamples = 2) =>
       /\ DOMAIN data = {<<0, 1>>, <<1, 0>>}
       /\ data[<<0, 1>>] = data[<<1, 0>>]
       /\ data[<<0, 1>>] > 0

\* C14 amended: with enumerated cores [0, 1] and nsamples = 2, when probing
\* completes the map holds exactly the entries (0, 1) and (1, 0), they are
\* equal and not negative; they are strictly greater than 0 exactly when
\* the smaller of the two elapsed times is at least 200 ns.
C14_TwoCores ==
    (mainpc = "plot_pre" /\ cpus = <<0, 1>> /\ nsamples = 2) =>
       /\ DOMAIN data = {<<0, 1>>, <<1, 0>>}
       /\ data[<<0, 1>>] = data[<<1, 0>>]
       /\ data[<<0, 1>>] >= 0
       /\ Len(samples) = 2
       /\ data[<<0, 1>>] > 0 <=> (SampleNs(1) >= 2 * NSteps /\ SampleNs(2) >= 2 * NSteps)

\* C14 witness: probing of cores [0, 1] with two repetitions is complete
\* and a positive latency was recorded.
C14_Witness ==
    /\ mainpc = "plot_pre"
    /\ cpus = <<0, 1>>
    /\ nsamples = 2
    /\ data[<<0, 1>>] > 0
    /\ data[<<1, 0>>] > 0

\* the lines of the table in the output, after the plot preamble if any
TableLine(k) == out[(IF plot THEN Len(Preamble) ELSE 0) + k]

\* the one-way latency of the pair of cores a and b, from the least elapsed
\* time measured while the two threads were pinned to them
Measured(a, b) == (lat[{a, b}] \div 2) \div NSteps

\* C15: the table.  Once all rows are written, the header lists the ids of
\* the enumerated cores (the cores of the mask in [begin_core, end_core]) in
\* ascending order, there is one row per enumerated core in the same order
\* with one value per column, and for distinct cores a and b the value in
\* the row of a and the column of b is the one-way latency measured between
\* the cores a and b, for every mask (also when ids and positions differ).
C15_TableContent ==
    mainpc \in {"plot_post", "return", "done"} =>
       /\ TableLine(1).kind = "header"
       /\ TableLine(1).vals = cpus
       /\ \A a \in DOMAIN cpus, b \in DOMAIN cpus : a < b => cpus[a] < cpus[b]
       /\ Range(cpus) = {c \in set : begin_core <= c /\ c <= end_core}
       /\ \A r \in DOMAIN cpus :
             /\ TableLine(1 + r).kind = "row"
             /\ TableLine(1 + r).id = cpus[r]
             /\ Len(TableLine(1 + r).vals) = Len(cpus)
             /\ \A c \in DOMAIN cpus :
                   c # r => /\ {cpus[r], cpus[c]} \in DOMAIN lat
                            /\ TableLine(1 + r).vals[c] = Measured(cpus[r], cpus[c])

\* C15 witness: the table of the cores 1 and 2 (ids that differ from the
\* positions) is written with a positive latency.
C15_Witness ==
    /\ mainpc = "done"
    /\ cpus = <<1, 2>>
    /\ nsamples = 2
    /\ TableLine(2).id = 1
    /\ TableLine(2).vals[2] > 0
    /\ TableLine(3).vals[1] > 0

\* a step in which a sequence number is stored by the controller or by a
\* responder (the cells' creation and reset are not counted in cw and rw)
HandshakeStore ==
    \E k \in DOMAIN cw \cap DOMAIN cw' : cw'[k] # cw[k] \/ rw'[k] # rw[k]

\* C16: each timed window brackets exactly one batch of 100 handshakes.
\* When the start timestamp of repetition m is taken both cells hold -1 and
\* controller and responder have stored exactly the m * 100 numbers of the
\* earlier repetitions; when the end timestamp is taken the controller has
\* stored 99 and read 99 from seq2 and both have stored exactly
\* (m + 1) * 100 numbers; every store of a sequence number, by either
\* thread, is made between the two timestamps of a repetition; and the
\* elapsed time of the repetition is taken between these two timestamps.
C16_TimedWindow ==
    /\ [](/\ mainpc = "ts1" =>
                /\ m < nsamples
                /\ seq1[pair] = Sentinel
                /\ seq2[pair] = Sentinel
                /\ cw[pair] = m * NSteps
                /\ rw[pair] = m * NSteps
          /\ mainpc \in {"store", "spin"} =>
                /\ n < NSteps
                /\ m * NSteps <= rw[pair]
                /\ rw[pair] <= cw[pair]
                /\ cw[pair] <= (m + 1) * NSteps
          /\ mainpc = "ts2" =>
                /\ n = NSteps
                /\ seq1[pair] = NSteps - 1
                /\ seq2[pair] = NSteps - 1
                /\ cw[pair] = (m + 1) * NSteps
                /\ rw[pair] = (m + 1) * NSteps)
    /\ [][HandshakeStore =>
             (/\ mainpc \in {"store", "spin"}
              /\ ts1' = ts1
              /\ samples' = samples
              /\ Len(samples) = m)]_vars
    /\ [][(mainpc = "ts1" /\ mainpc' # "ts1") =>
             (ts1' = clock' /\ clock' >= clock /\ mainpc' = "store" /\ n' = 0)]_vars
    /\ [][(mainpc = "ts2" /\ mainpc' # "ts2") =>
             (/\ samples' = Append(samples, <<ts1, clock'>>)
              /\ clock' >= clock
              /\ clock >= ts1)]_vars

\* C16 witness: the end timestamp of the second repetition is about to be
\* taken, after 200 stores of each thread.
C16_Witness ==
    /\ mainpc = "ts2"
    /\ m = 1
    /\ cw[pair] = 2 * NSteps
    /\ rw[pair] = 2 * NSteps
    /\ seq2[pair] = NSteps - 1

\* positions of main() at which the timed part of a repetition runs
TimedPcs == {"ts1", "store", "spin", "ts2"}

\* C17: every handshake step of iteration (i, j) runs with the threads bound
\* to the two cores of the pair.  A responder that reads seq1 or stores to
\* seq2 is the one of the current iteration, is bound to cpus[i] and has
\* made exactly one successful pin call; the controller, from its first
\* start timestamp to the join, is bound to cpus[j], a core different from
\* cpus[i] with j > i, and has made exactly one successful pin call in this
\* iteration; no thread makes more than one; the binding of a thread changes
\* only in its pin step, before any handshake step of the iteration; and
\* every store of a sequence number is made by a thread bound to the core of
\* the current iteration, not to the one it was bound to before.
C17_Pinned ==
    /\ [](/\ \A k \in DOMAIN threads :
                /\ pins[k].ctl <= 1
                /\ pins[k].resp <= 1
                /\ threads[k].pc \in {"load", "store"} =>
                      /\ k = pair
                      /\ threads[k].cpu = At(cpus, i)
                      /\ pins[k].resp = 1
                /\ threads[k].pc = "pin" =>
                      /\ pins[k].resp = 0
                      /\ rw[k] = 0
          /\ mainpc \in TimedPcs \cup {"for_m", "reset", "join"} =>
                /\ i < j
                /\ j < Len(cpus)
                /\ mainCpu = At(cpus, j)
                /\ At(cpus, j) # At(cpus, i)
                /\ pins[pair].ctl = 1
          /\ mainpc = "pin" => (pins[pair].ctl = 0 /\ cw[pair] = 0))
    /\ [][mainCpu' # mainCpu => (mainpc = "pin" /\ mainCpu' = At(cpus, j))]_vars
    /\ [][\A k \in DOMAIN threads \cap DOMAIN threads' :
             threads'[k].cpu # threads[k].cpu =>
                (threads[k].pc = "pin" /\ threads'[k].cpu = At(cpus, i))]_vars
    /\ [][\A k \in DOMAIN cw \cap DOMAIN cw' :
             /\ cw'[k] # cw[k] => (k = pair /\ mainCpu = At(cpus, j))
             /\ rw'[k] # rw[k] => (k = pair /\ threads[k].cpu = At(cpus, i))]_vars

\* C17 witness: in the third iteration over three cores, (1, 2), the
\* responder bound to core 1, which the controller was bound to in the
\* first iteration, answers the controller that is bound to core 2 as it
\* was in the second iteration.
C17_Witness ==
    /\ pair = 3
    /\ cpus = <<0, 1, 2>>
    /\ mainpc = "spin"
    /\ mainCpu = 2
    /\ threads[3].pc = "store"
    /\ threads[3].cpu = 1
    /\ pins[3] = [ctl |-> 1, resp |-> 1]
    /\ pins[2] = [ctl |-> 1, resp |-> 1]

\* a step of the controlling thread, and a step of a responder
CtlStep == mainpc' # mainpc /\ threads' = threads
RespStep == threads' # threads /\ mainpc' = mainpc

\* C18 as stated: after their initialisation the value of seq1 is changed
\* only by steps of the controller and the value of seq2 only by steps of
\* the responder.
C18_Original ==
    [][\A k \in DOMAIN seq1 \cap DOMAIN seq1' :
          /\ seq1'[k] # seq1[k] => CtlStep
          /\ seq2'[k] # seq2[k] => RespStep]_vars

\* C18 amended: seq1 is written only by the controller.  seq2 is written by
\* the responder, which stores the sequence number it has read, and by the
\* controller only in the reset to -1 at the start of each repetition (line
\* 109); at that reset the responder is not about to store: it has not
\* started, or waits for the 0 of the repetition.
C18_Writers ==
    /\ [][\A k \in DOMAIN seq1 \cap DOMAIN seq1' :
             /\ seq1'[k] # seq1[k] => CtlStep
             /\ seq2'[k] # seq2[k] =>
                   \/ /\ RespStep
                      /\ threads[k].pc = "store"
                      /\ seq2'[k] = threads[k].n
                   \/ /\ CtlStep
                      /\ mainpc = "for_m"
                      /\ seq2'[k] = Sentinel]_vars
    /\ [][\A k \in DOMAIN seq2 \cap DOMAIN seq2' :
             (mainpc = "for_m" /\ mainpc' = "reset") =>
                (/\ k = pair
                 /\ seq2'[k] = Sentinel
                 /\ threads[k].pc \in {"pin", "load"}
                 /\ threads[k].pc = "load" => (threads[k].n = 0 /\ threads[k].m = m))]_vars

\* C18 witness: the controller has reset seq2 from 99 to -1 at the start of
\* the second repetition, after the responder's 100 stores of the first.
C18_Witness ==
    /\ mainpc = "reset"
    /\ m = 1
    /\ seq2[pair] = Sentinel
    /\ seq1[pair] = NSteps - 1
    /\ rw[pair] = NSteps

\* C19: every core index that the enumeration loop tests against the mask
\* lies in [0, CPU_SETSIZE - 1]: whenever the loop is about to evaluate
\* CPU_ISSET(ei, set), for any -b and -e and for the defaults, 0 <= ei and
\* ei <= CPU_SETSIZE - 1.
C19_IndexInRange ==
    (mainpc = "enum" /\ proc = "running" /\ EnumContinues(ei, end_core)) =>
       (0 <= ei /\ ei <= CPU_SETSIZE - 1)

\* the value that lines 122-123 record when rtt still holds its initial
\* value, the largest duration
Placeholder == (NsMax \div 2) \div NSteps

\* C20: nsamples <= 0 and nsamples >= 1.  With nsamples <= 0 the controller
\* never enters a repetition and no responder enters its loops: no cell is
\* reset or stored to, no timestamp is taken and no sample is recorded; a
\* responder ends at its first step after pinning, so the join waits for
\* nothing else and is made with the responder returned; rtt keeps the
\* largest duration and both entries of the pair hold that value / 2 / 100.
\* With nsamples >= 1 the recorded rtt is the least of nsamples elapsed
\* times, each at most the clock's reading, which is below the largest
\* duration, and the entries hold that minimum / 2 / 100.
C20_NoSamples ==
    /\ nsamples <= 0 =>
          /\ mainpc \notin {"reset", "ts1", "store", "spin", "ts2"}
          /\ samples = <<>>
          /\ clock = 0
          /\ \A k \in DOMAIN threads :
                /\ threads[k].pc \in {"pin", "finished"}
                /\ cw[k] = 0
                /\ rw[k] = 0
          /\ \A k \in DOMAIN seq1 : seq1[k] = Sentinel /\ seq2[k] = Sentinel
          /\ mainpc \in {"for_m", "join", "rec1", "rec2", "end_pair"} => rtt = NsMax
          /\ (mainpc = "join" /\ proc = "running") => ENABLED (Join \/ RPin(pair))
          /\ mainpc \in {"rec1", "rec2", "end_pair"} => threads[pair].pc = "finished"
          /\ mainpc = "end_pair" =>
                /\ data[<<i, j>>] = Placeholder
                /\ data[<<j, i>>] = Placeholder
          /\ mainpc \in RenderPcs =>
                \A p \in AllPairs :
                   data[p] = Placeholder /\ data[<<p[2], p[1]>>] = Placeholder
    /\ nsamples >= 1 =>
          /\ mainpc \in {"join", "rec1", "rec2", "end_pair"} =>
                /\ Len(samples) = nsamples
                /\ rtt = MinSample
                /\ rtt <= clock
                /\ rtt < NsMax
          /\ mainpc = "end_pair" =>
                /\ data[<<i, j>>] = (MinSample \div 2) \div NSteps
                /\ data[<<j, i>>] = (MinSample \div 2) \div NSteps
                /\ data[<<i, j>>] < Placeholder

\* C20 witness: with -s 0 the third pair of three cores is recorded with
\* the value of the largest duration, no handshake step having been made.
C20_Witness ==
    /\ nsamples = 0
    /\ mainpc = "end_pair"
    /\ pair = 3
    /\ data[<<1, 2>>] = Placeholder
    /\ data[<<2, 1>>] = Placeholder
    /\ cw[3] = 0
    /\ rw[3] = 0
=============================================================================
